---- MODULE Spec2Model ----
(***************************************************************************)
(* Model of vmdk-conversion/convert.py: the SimpleHivex registry editor    *)
(* (cursor, control-set alias, subkey creation, typed value writes,        *)
(* commit) and the Image operations built on it (guest session, mounts,    *)
(* dispatch, hive download, driver staging, viostor stub injection).       *)
(*                                                                         *)
(* A hive is a sequence of node records; a node handle is its index, as    *)
(* hivex hands out integer node handles.  Python's None is 0.  A key path  *)
(* is a sequence of tokens, "/" being the separator and every other token  *)
(* a run of name characters, so that split('/') has real work to do.       *)
(* Text is a sequence of UTF-16 code units, bytes are naturals below 256.  *)
(***************************************************************************)
EXTENDS Integers, Sequences, FiniteSets, TLC

VARIABLES
    hive,           \* the in-memory hive behind the handle self.h
    file,           \* content of the hive's backing file on the host
    hstate,         \* "closed", "open", "failed": the SimpleHivex session
    current_node,   \* self.current_node
    at_root,        \* self.at_root
    ccs,            \* self.ccs, the control-set alias
    commits,        \* number of h.commit() calls of the session
    created,        \* number of node_add_child calls of the session
    writes,         \* number of node_set_value calls of the session
    last            \* the last SimpleHivex call and how it ended

hvars == <<hive, file, hstate, current_node, at_root, ccs, commits, created,
           writes, last>>

VARIABLES
    pc,             \* where the conversion run stands
    err,            \* the error the run ended with, NoError while it runs
    dest,           \* convert()'s destination_hypervisor argument
    guest,          \* what inspection reports: ostype, major, minor, arch
    gfs,            \* self.gfs: None or "active"
    launches,       \* number of gfs.launch() calls
    registered,     \* whether info() has set self.disk_format
    guest_hive,     \* the system hive on the guest filesystem
    tmpdir,         \* the host directory made by tempfile.mkdtemp
    guest_dir,      \* whether /v2v-virtio is a directory on the guest
    mkdirs,         \* number of gfs.mkdir_p calls
    uploaded,       \* the gfs.upload calls made, as [source, dest] records
    mounts,         \* gfs.mounts(): the devices mounted in the session
    mount_calls,    \* number of gfs.mount / gfs.mount_ro calls
    ip,             \* index of the next call of _stub_viostor's script
    gfs_calls,      \* the mount, mkdir_p and upload calls of the running
                    \* operation, in the order they were made
    ops             \* number of calls of the Image's public operations

cvars == <<pc, err, dest, guest, gfs, launches, registered, guest_hive, tmpdir,
           guest_dir, mkdirs, uploaded, mounts, mount_calls, ip, gfs_calls,
           ops>>

vars == <<hvars, cvars>>

----------------------------------------------------------------------------
(* Bounds of the model *)

MaxPathLen == 3     \* tokens in a key path given to navigate_to
MaxNewKeys == 1     \* subkeys a free editing session may create
MaxWrites == 1      \* values a free editing session may write
MaxCommits == 1     \* commits a free editing session may make
MaxCalls == 2       \* calls of public operations on one Image

----------------------------------------------------------------------------
(* Python values *)

None == 0

REG_NONE == 0
REG_SZ == 1
REG_EXPAND_SZ == 2
REG_BINARY == 3
REG_DWORD == 4
REG_DWORD_BIG_ENDIAN == 5
REG_LINK == 6
REG_MULTI_SZ == 7
REG_RESOURCE_LIST == 8
REG_FULL_RESOURCE_DESCRIPTOR == 9
REG_RESOURCE_REQUIREMENTS_LIST == 10
REG_QWORD == 11

\* The error classes the code raises, under the names of the error taxonomy:
\*   KeyNotFound           ValueError('No key %s')
\*   SubkeyCreateFailed    RuntimeError('Cannot add subkey: %s')
\*   UnsupportedValueType  ValueError('Unknown value type: %s')
\*   CommitFailed          RuntimeError out of h.commit
\* and Python's own IndexError, TypeError, AttributeError, struct.error.
NoError == "none"

----------------------------------------------------------------------------
(* The hivex library, as far as SimpleHivex uses it *)

root == 1

node_get_child(h, node, name) ==
    LET m == {i \in 1..Len(h.nodes) :
                 h.nodes[i].parent = node /\ h.nodes[i].name = name}
    IN  IF m = {} THEN None ELSE CHOOSE i \in m : \A j \in m : i <= j

node_add_child(h, parent, name) ==
    [nodes |-> Append(h.nodes, [parent |-> parent, name |-> name]),
     vals  |-> Append(h.vals, <<>>)]

node_get_value(h, node, key) ==
    LET m == {i \in 1..Len(h.vals[node]) : h.vals[node][i].key = key}
    IN  IF m = {} THEN None ELSE CHOOSE i \in m : \A j \in m : i <= j

\* mutant: the value is added after those the node has
node_set_value_appends(h, node, new_value) ==
    [h EXCEPT !.vals[node] = Append(h.vals[node], new_value)]

\* hivex_node_set_value: an existing value of that name is replaced
node_set_value(h, node, new_value) ==
    LET kept == SelectSeq(h.vals[node], LAMBDA v : v.key # new_value.key)
    IN  [h EXCEPT !.vals[node] = Append(kept, new_value)]

\* hivex_value_dword: the 4 stored bytes read as a little-endian integer
value_dword(v) ==
    v.value[1] + 256 * v.value[2] + 65536 * v.value[3] + 16777216 * v.value[4]

----------------------------------------------------------------------------
(* Value encoding *)

RECURSIVE encode_utf_16le(_)
encode_utf_16le(text) ==
    IF text = <<>> THEN <<>>
    ELSE <<Head(text) % 256, Head(text) \div 256>> \o encode_utf_16le(Tail(text))

\* mutant: struct.pack('>I', value)
struct_pack_I_big_endian(value) ==
    <<(value \div 16777216) % 256, (value \div 65536) % 256,
      (value \div 256) % 256, value % 256>>

\* struct.pack('I', value) on a little-endian host; it refuses a negative value
\* and one above 2^32 - 1, which is beyond the integers of this model
struct_pack_I(value) ==
    <<value % 256, (value \div 256) % 256,
      (value \div 65536) % 256, (value \div 16777216) % 256>>

\* mutant: '%d' % n
Format_d(n) == ToString(n)

\* '%03d' % n
Format03d(n) ==
    IF n < 10 THEN "00" \o ToString(n)
    ELSE IF n < 100 THEN "0" \o ToString(n)
    ELSE ToString(n)

----------------------------------------------------------------------------
(* SimpleHivex *)

\* mutant: a hive without Select falls back to the first control set
SimpleHivex_ccs_first_set(h) ==
    LET select == node_get_child(h, root, "Select") IN
    IF select = None
    THEN [err |-> NoError, ccs |-> "ControlSet001"]
    ELSE LET c == node_get_value(h, select, "Current") IN
         IF c = None
         THEN [err |-> "RuntimeError", ccs |-> ""]
         ELSE [err |-> NoError,
               ccs |-> "ControlSet" \o Format03d(value_dword(h.vals[select][c]))]

\* SimpleHivex.__init__, from "select = ..." on: the alias
SimpleHivex_ccs(h) ==
    LET select == node_get_child(h, root, "Select") IN
    IF select = None
    THEN [err |-> NoError, ccs |-> "CurrentControlSet"]
    ELSE LET c == node_get_value(h, select, "Current") IN
         IF c = None
         THEN [err |-> "RuntimeError", ccs |-> ""]
         ELSE [err |-> NoError,
               ccs |-> "ControlSet" \o Format03d(value_dword(h.vals[select][c]))]

\* key_path.split('/')
RECURSIVE split(_)
split(key_path) ==
    IF key_path = <<>> THEN <<"">>
    ELSE LET rest == split(Tail(key_path)) IN
         IF Head(key_path) = "/"
         THEN <<"">> \o rest
         ELSE <<Head(key_path) \o Head(rest)>> \o Tail(rest)

\* mutant: the loop looks every key up and raises for a missing one only after
\* the last, naming that one
RECURSIVE descend_check_late(_, _, _, _, _)
descend_check_late(h, node, atroot, keys, looked) ==
    IF keys = <<>>
    THEN [err |-> NoError, node |-> node, at_root |-> atroot,
          key |-> "", looked |-> looked]
    ELSE LET child == IF node = None THEN None
                      ELSE node_get_child(h, node, Head(keys)) IN
         IF Len(keys) = 1 /\ child = None
         THEN [err |-> "KeyNotFound", node |-> None, at_root |-> atroot,
               key |-> Head(keys), looked |-> looked + 1]
         ELSE descend_check_late(h, child, child = None /\ atroot, Tail(keys),
                                 looked + 1)

\* the "for key in keys" loop of navigate_to; looked counts node_get_child calls
RECURSIVE descend(_, _, _, _, _)
descend(h, node, atroot, keys, looked) ==
    IF keys = <<>>
    THEN [err |-> NoError, node |-> node, at_root |-> atroot,
          key |-> "", looked |-> looked]
    ELSE IF node = None
    THEN [err |-> "TypeError", node |-> node, at_root |-> atroot,
          key |-> "", looked |-> looked]
    ELSE LET child == node_get_child(h, node, Head(keys)) IN
         IF child = None
         THEN [err |-> "KeyNotFound", node |-> None, at_root |-> atroot,
               key |-> Head(keys), looked |-> looked + 1]
         ELSE descend(h, child, FALSE, Tail(keys), looked + 1)

\* mutant: the alias replaces a first segment wherever the cursor is
navigate_to_any_cursor(h, node, atroot, alias, key_path) ==
    LET keys0 == split(key_path)
        abs   == keys0[1] = ""
        keys1 == IF abs THEN Tail(keys0) ELSE keys0
        at1   == IF abs THEN TRUE ELSE atroot
        cur1  == IF abs THEN root ELSE node
    IN  IF at1 /\ keys1 = <<>>
        THEN [err |-> "IndexError", node |-> cur1, at_root |-> at1,
              key |-> "", looked |-> 0]
        ELSE LET keys2 == IF keys1[1] = "CurrentControlSet"
                          THEN <<alias>> \o Tail(keys1)
                          ELSE keys1
             IN  descend(h, cur1, at1, keys2, 0)

navigate_to(h, node, atroot, alias, key_path) ==
    LET keys0 == split(key_path)
        abs   == keys0[1] = ""
        keys1 == IF abs THEN Tail(keys0) ELSE keys0
        at1   == IF abs THEN TRUE ELSE atroot
        cur1  == IF abs THEN root ELSE node
    IN  IF at1 /\ keys1 = <<>>
        THEN [err |-> "IndexError", node |-> cur1, at_root |-> at1,
              key |-> "", looked |-> 0]
        ELSE LET keys2 == IF at1 /\ keys1[1] = "CurrentControlSet"
                          THEN <<alias>> \o Tail(keys1)
                          ELSE keys1
             IN  descend(h, cur1, at1, keys2, 0)

\* mutant: the child is added without looking for an existing one
add_subkey_always_adds(h, node, atroot, name, store_ok) ==
    IF node = None
    THEN [err |-> "TypeError", h |-> h, node |-> node, at_root |-> atroot]
    ELSE IF ~store_ok
    THEN [err |-> "SubkeyCreateFailed", h |-> h, node |-> node,
          at_root |-> atroot]
    ELSE [err |-> NoError, h |-> node_add_child(h, node, name),
          node |-> Len(h.nodes) + 1, at_root |-> FALSE]

\* mutant: add_subkey moves the cursor and leaves the flag as it was
add_subkey_keeps_flag(h, node, atroot, name, store_ok) ==
    IF node = None
    THEN [err |-> "TypeError", h |-> h, node |-> node, at_root |-> atroot]
    ELSE LET sk == node_get_child(h, node, name) IN
         IF sk # None
         THEN [err |-> NoError, h |-> h, node |-> sk, at_root |-> atroot]
         ELSE IF ~store_ok
         THEN [err |-> "SubkeyCreateFailed", h |-> h, node |-> node,
               at_root |-> atroot]
         ELSE [err |-> NoError, h |-> node_add_child(h, node, name),
               node |-> Len(h.nodes) + 1, at_root |-> atroot]

\* store_ok: whether the underlying store can create the child
add_subkey(h, node, atroot, name, store_ok) ==
    IF node = None
    THEN [err |-> "TypeError", h |-> h, node |-> node, at_root |-> atroot]
    ELSE LET sk == node_get_child(h, node, name) IN
         IF sk # None
         THEN [err |-> NoError, h |-> h, node |-> sk, at_root |-> FALSE]
         ELSE IF ~store_ok
         THEN [err |-> "SubkeyCreateFailed", h |-> h, node |-> node,
               at_root |-> atroot]
         ELSE [err |-> NoError, h |-> node_add_child(h, node, name),
               node |-> Len(h.nodes) + 1, at_root |-> FALSE]

\* value: [kind |-> "text", text |-> code units] or [kind |-> "int", int |-> n];
\* store_ok: whether the underlying store accepts the write
set_value(h, node, new_value, store_ok) ==
    IF node = None THEN [err |-> "TypeError", h |-> h]
    ELSE IF ~store_ok THEN [err |-> "RuntimeError", h |-> h]
    ELSE [err |-> NoError, h |-> node_set_value(h, node, new_value)]

\* mutant: any other type tag stores the value as it is given
add_value_any_tag(h, node, value_type, key, value, store_ok) ==
    IF value_type = REG_SZ \/ value_type = REG_EXPAND_SZ
    THEN IF value.kind # "text"
         THEN [err |-> "AttributeError", h |-> h]
         ELSE set_value(h, node, [key |-> key, t |-> value_type,
                                  value |-> encode_utf_16le(value.text)],
                        store_ok)
    ELSE IF value_type = REG_DWORD
    THEN IF value.kind # "int" \/ value.int < 0
         THEN [err |-> "struct.error", h |-> h]
         ELSE set_value(h, node, [key |-> key, t |-> value_type,
                                  value |-> struct_pack_I(value.int)],
                        store_ok)
    ELSE set_value(h, node, [key |-> key, t |-> value_type,
                             value |-> value.text], store_ok)

add_value(h, node, value_type, key, value, store_ok) ==
    IF value_type = REG_SZ \/ value_type = REG_EXPAND_SZ
    THEN IF value.kind # "text"
         THEN [err |-> "AttributeError", h |-> h]
         ELSE set_value(h, node, [key |-> key, t |-> value_type,
                                  value |-> encode_utf_16le(value.text)],
                        store_ok)
    ELSE IF value_type = REG_DWORD
    THEN IF value.kind # "int" \/ value.int < 0
         THEN [err |-> "struct.error", h |-> h]
         ELSE set_value(h, node, [key |-> key, t |-> value_type,
                                  value |-> struct_pack_I(value.int)],
                        store_ok)
    ELSE [err |-> "UnsupportedValueType", h |-> h]

add_reg_sz(h, node, key, value, store_ok) ==
    add_value(h, node, REG_SZ, key, value, store_ok)

add_reg_expand_sz(h, node, key, value, store_ok) ==
    add_value(h, node, REG_EXPAND_SZ, key, value, store_ok)

add_reg_dword(h, node, key, value, store_ok) ==
    add_value(h, node, REG_DWORD, key, value, store_ok)

----------------------------------------------------------------------------
(* Hives and inputs of the model *)

NoFile == [nodes |-> <<>>, vals |-> <<>>]

key(parent, name) == [parent |-> parent, name |-> name]

dword(name, n) == [key |-> name, t |-> REG_DWORD, value |-> struct_pack_I(n)]

\* A system hive: Select/Current = n, two control sets, and a key that is
\* literally named CurrentControlSet
SystemHive(n, other) ==
    [nodes |-> <<key(0, ""), key(1, "Select"),
                 key(1, "ControlSet" \o Format03d(n)), key(1, other),
                 key(3, "Control"), key(1, "CurrentControlSet")>>,
     vals  |-> <<<<>>, <<dword("Current", n)>>, <<>>, <<>>, <<>>, <<>>>>]

\* A hive without a Select key
PlainHive ==
    [nodes |-> <<key(0, ""), key(1, "CurrentControlSet"),
                 key(1, "ControlSet001"), key(2, "Control")>>,
     vals  |-> <<<<>>, <<>>, <<>>, <<>>>>]

\* A hive whose Select key has no Current value
BrokenHive ==
    [nodes |-> <<key(0, ""), key(1, "Select"), key(1, "ControlSet001")>>,
     vals  |-> <<<<>>, <<>>, <<>>>>]

SessionHives ==
    {SystemHive(2, "ControlSet001"), SystemHive(12, "ControlSet001"),
     PlainHive, BrokenHive}

EditHives ==
    {SystemHive(2, "ControlSet001"), SystemHive(12, "ControlSet001"), PlainHive}

EditPaths == {<<"/", "Select">>, <<"/", "CurrentControlSet">>, <<"Services">>}

Tokens == {"/", "CurrentControlSet", "ControlSet001", "Control"}

InputPaths == UNION {[1..n -> Tokens] : n \in 0..MaxPathLen}

SubkeyNames == {"CurrentControlSet", "viostor"}

Text(t) == [kind |-> "text", text |-> t, int |-> 0]

Number(n) == [kind |-> "int", text |-> <<>>, int |-> n]

viostor == <<118, 105, 111, 115, 116, 111, 114>>

InputValues == {Text(viostor), Number(33), Number(-1)}

ValueNames == {"Current"}

TypeTags == 0..12

----------------------------------------------------------------------------
(* Image: driver resolution and the stub script *)

dest_path == "/v2v-virtio"

virtio_base == "virtio"

version_map ==
    [v \in {"6.2", "6.1", "6.0", "5.2"} |->
        CASE v = "6.2" -> "WIN8"
          [] v = "6.1" -> "WIN7"
          [] v = "6.0" -> "WLH"
          [] v = "5.2" -> "WNET"]

win_arch_map ==
    [a \in {"x86_64", "i386"} |-> IF a = "x86_64" THEN "AMD64" ELSE "X86"]

\* '%d.%d' % (self.major, self.minor)
version_of(g) == ToString(g.major) \o "." \o ToString(g.minor)

\* The host's driver tree: the directories under virtio_base and what
\* os.listdir and os.path.isfile report of each
HostDirs ==
    {<<virtio_base, p, a>> : p \in {"WIN8", "WIN7", "WLH", "WNET"},
                             a \in {"AMD64", "X86"}}
        \ {<<virtio_base, "WNET", "X86">>}

HostEntries ==
    {[name |-> "VIOSTOR.SYS", isfile |-> TRUE],
     [name |-> "viostor.inf", isfile |-> TRUE],
     [name |-> "extras", isfile |-> FALSE]}

\* what the subdirectory of a driver directory holds
HostSubdirEntries == {[name |-> "readme.txt", isfile |-> TRUE]}

\* os.listdir(path); the path is one of HostDirs when it is called
listdir(path) ==
    IF path \in HostDirs THEN {e.name : e \in HostEntries}
    ELSE IF Len(path) = 4 /\ SubSeq(path, 1, 3) \in HostDirs
            /\ path[4] = "extras"
    THEN {e.name : e \in HostSubdirEntries}
    ELSE {}

\* os.path.isfile(path)
isfile(path) ==
    \/ /\ Len(path) = 4 /\ SubSeq(path, 1, 3) \in HostDirs
       /\ \E e \in HostEntries : e.isfile /\ e.name = path[4]
    \/ /\ Len(path) = 5 /\ SubSeq(path, 1, 3) \in HostDirs
       /\ path[4] = "extras"
       /\ \E e \in HostSubdirEntries : e.isfile /\ e.name = path[5]

\* mutant: every entry of the source directory is taken, regular file or not
upload_virtio_plan_every_entry(g, base, is_dir) ==
    LET version == ToString(g.major) \o "." \o ToString(g.minor) IN
    IF g.arch \notin DOMAIN win_arch_map
    THEN [err |-> "KeyError", file_list |-> {}, mkdir |-> FALSE]
    ELSE IF version \notin DOMAIN version_map
    THEN [err |-> "UnsupportedGuestVersion", file_list |-> {}, mkdir |-> FALSE]
    ELSE LET source_path == <<base, version_map[version], win_arch_map[g.arch]>>
         IN  IF source_path \notin HostDirs
             THEN [err |-> "OSError", file_list |-> {}, mkdir |-> FALSE]
             ELSE [err |-> NoError,
                   file_list |->
                       {[source |-> Append(source_path, f),
                         dest |-> <<dest_path, f>>] : f \in listdir(source_path)},
                   mkdir |-> ~is_dir]

\* _upload_virtio up to the uploads: the error, or the list of files to upload
\* and whether mkdir_p is called
upload_virtio_plan(g, base, is_dir) ==
    LET version == version_of(g) IN
    IF g.arch \notin DOMAIN win_arch_map
    THEN [err |-> "KeyError", file_list |-> {}, mkdir |-> FALSE]
    ELSE IF version \notin DOMAIN version_map
    THEN [err |-> "UnsupportedGuestVersion", file_list |-> {}, mkdir |-> FALSE]
    ELSE LET source_path == <<base, version_map[version], win_arch_map[g.arch]>>
         IN  IF source_path \notin HostDirs
             THEN [err |-> "OSError", file_list |-> {}, mkdir |-> FALSE]
             ELSE LET source_files ==
                          {f \in listdir(source_path) :
                              isfile(Append(source_path, f))}
                  IN  [err |-> NoError,
                       file_list |->
                           {[source |-> Append(source_path, f),
                             dest |-> <<dest_path, f>>] : f \in source_files},
                       mkdir |-> ~is_dir]

ClassGUID ==
    <<123, 52, 68, 51, 54, 69, 57, 55, 66, 45, 69, 51, 50, 53, 45, 49, 49, 67,
      69, 45, 66, 70, 67, 49, 45, 48, 56, 48, 48, 50, 66, 69, 49, 48, 51, 49,
      56, 125>>

SCSI_miniport == <<83, 67, 83, 73, 32, 109, 105, 110, 105, 112, 111, 114, 116>>

ImagePath ==
    <<67, 58, 92, 92, 118, 50, 118, 45, 118, 105, 114, 116, 105, 111, 92, 92,
      86, 73, 79, 83, 84, 79, 82, 46, 83, 89, 83>>

Step(op, arg, k, v) == [op |-> op, arg |-> arg, key |-> k, value |-> v]

NoValue == Text(<<>>)

\* mutant: the loop body without its navigate_to, each subkey added where the
\* cursor was left
stub_cdd_no_navigate(subkey) ==
    <<Step("add_subkey", <<"pci#ven_1af4&dev_1001&subsys_" \o subkey>>, "",
           NoValue),
      Step("add_reg_sz", <<>>, "ClassGUID", Text(ClassGUID)),
      Step("add_reg_sz", <<>>, "Service", Text(viostor))>>

\* the body of the "for subkey in [...]" loop of _stub_viostor
stub_cdd(subkey) ==
    <<Step("navigate_to", <<"/", "CurrentControlSet", "/", "Control", "/",
                            "CriticalDeviceDatabase">>, "", NoValue),
      Step("add_subkey", <<"pci#ven_1af4&dev_1001&subsys_" \o subkey>>, "",
           NoValue),
      Step("add_reg_sz", <<>>, "ClassGUID", Text(ClassGUID)),
      Step("add_reg_sz", <<>>, "Service", Text(viostor))>>

\* mutant: a commit after the device keys as well as at the end
stub_viostor_two_commits ==
    stub_cdd("00000000") \o stub_cdd("00020000") \o stub_cdd("00021af4") \o
    <<Step("commit", <<>>, "", NoValue),
      Step("navigate_to", <<"/", "CurrentControlSet", "/", "Services">>, "",
           NoValue),
      Step("add_subkey", <<"viostor">>, "", NoValue),
      Step("add_reg_dword", <<>>, "ErrorControl", Number(1)),
      Step("commit", <<>>, "", NoValue)>>

\* the calls _stub_viostor makes on the hive it has opened, in order
stub_viostor ==
    stub_cdd("00000000") \o stub_cdd("00020000") \o stub_cdd("00021af4") \o
    <<Step("navigate_to", <<"/", "CurrentControlSet", "/", "Services">>, "",
           NoValue),
      Step("add_subkey", <<"viostor">>, "", NoValue),
      Step("add_reg_dword", <<>>, "ErrorControl", Number(1)),
      Step("add_reg_sz", <<>>, "Group", Text(SCSI_miniport)),
      Step("add_reg_dword", <<>>, "Start", Number(0)),
      Step("add_reg_dword", <<>>, "Tag", Number(33)),
      Step("add_reg_dword", <<>>, "Type", Number(1)),
      Step("add_reg_expand_sz", <<>>, "ImagePath", Text(ImagePath)),
      Step("commit", <<>>, "", NoValue)>>

\* the calls of a script made one after the other on a hive whose store
\* accepts every write, up to the first that raises
RECURSIVE run_script(_, _, _, _, _)
run_script(script, h, node, atroot, alias) ==
    IF script = <<>> THEN [err |-> NoError, h |-> h]
    ELSE LET c == Head(script) IN
         IF c.op = "navigate_to"
         THEN LET r == navigate_to(h, node, atroot, alias, c.arg) IN
              IF r.err # NoError THEN [err |-> r.err, h |-> h]
              ELSE run_script(Tail(script), h, r.node, r.at_root, alias)
         ELSE IF c.op = "add_subkey"
         THEN LET r == add_subkey(h, node, atroot, c.arg[1], TRUE) IN
              IF r.err # NoError THEN [err |-> r.err, h |-> h]
              ELSE run_script(Tail(script), r.h, r.node, r.at_root, alias)
         ELSE IF c.op = "commit"
         THEN run_script(Tail(script), h, node, atroot, alias)
         ELSE LET r == CASE c.op = "add_reg_sz" ->
                              add_reg_sz(h, node, c.key, c.value, TRUE)
                         [] c.op = "add_reg_expand_sz" ->
                              add_reg_expand_sz(h, node, c.key, c.value, TRUE)
                         [] c.op = "add_reg_dword" ->
                              add_reg_dword(h, node, c.key, c.value, TRUE)
              IN  IF r.err # NoError THEN [err |-> r.err, h |-> h]
                  ELSE run_script(Tail(script), r.h, node, atroot, alias)

\* _stub_viostor(system_hive) on a hive file: the hive it commits
stub_viostor_on(system_hive) ==
    LET o == SimpleHivex_ccs(system_hive) IN
    IF o.err # NoError THEN [err |-> o.err, h |-> system_hive]
    ELSE run_script(stub_viostor, system_hive, root, TRUE, o.ccs)

\* mutant: the Xen routines are those of kvm
converter_xen_as_kvm(hypervisor, ostype) ==
    LET name == "convert_" \o hypervisor \o "_" \o ostype IN
    IF name \in {"convert_kvm_windows", "convert_xen_windows"}
    THEN "convert_kvm_windows"
    ELSE IF name \in {"convert_kvm_linux", "convert_xen_linux"}
    THEN "convert_kvm_linux"
    ELSE "None"

\* mutant: a pair without a routine of its own gets the no-op routine
converter_falls_back(hypervisor, ostype) ==
    LET name == "convert_" \o hypervisor \o "_" \o ostype IN
    IF name \in {"convert_kvm_windows", "convert_xen_windows",
                 "convert_kvm_linux", "convert_xen_linux"}
    THEN name ELSE "convert_kvm_linux"

\* ValueError('No converter to "%s" for platform "%s"' % (...))
NoConverter(hypervisor, ostype) ==
    "NoConverter: No converter to \"" \o hypervisor \o "\" for platform \""
        \o ostype \o "\""

\* getattr(self, 'convert_%s_%s' % (destination_hypervisor, self.ostype), None)
converter(hypervisor, ostype) ==
    LET name == "convert_" \o hypervisor \o "_" \o ostype IN
    IF name \in {"convert_kvm_windows", "convert_xen_windows",
                 "convert_kvm_linux", "convert_xen_linux"}
    THEN name ELSE "None"

\* Guest system hives: two control sets with the keys the stub needs
GuestHive(n) ==
    [nodes |-> <<key(0, ""), key(1, "Select"), key(1, "ControlSet001"),
                 key(1, "ControlSet002"), key(3, "Control"),
                 key(5, "CriticalDeviceDatabase"), key(3, "Services"),
                 key(4, "Control"), key(8, "CriticalDeviceDatabase"),
                 key(4, "Services")>>,
     vals  |-> <<<<>>, <<dword("Current", n)>>, <<>>, <<>>, <<>>, <<>>, <<>>,
                 <<>>, <<>>, <<>>>>]

\* A guest hive that already holds one of the device keys and the service key,
\* with other values
StubbedHive ==
    [nodes |-> GuestHive(2).nodes \o
               <<key(9, "pci#ven_1af4&dev_1001&subsys_00020000"),
                 key(10, "viostor")>>,
     vals  |-> GuestHive(2).vals \o
               <<<<[key |-> "Service", t |-> REG_SZ,
                    value |-> encode_utf_16le(<<97>>)]>>,
                 <<dword("Start", 3), dword("Tag", 33)>>>>]

\* A guest hive whose current control set has no Services key
NoServicesHive ==
    [nodes |-> <<key(0, ""), key(1, "Select"), key(1, "ControlSet001"),
                 key(3, "Control"), key(4, "CriticalDeviceDatabase")>>,
     vals  |-> <<<<>>, <<dword("Current", 1)>>, <<>>, <<>>, <<>>>>]

\* A hive without a Select key that has the keys of the stub under a key
\* literally named CurrentControlSet
LiteralHive ==
    [nodes |-> <<key(0, ""), key(1, "CurrentControlSet"), key(2, "Control"),
                 key(3, "CriticalDeviceDatabase"), key(2, "Services"),
                 key(1, "ControlSet001")>>,
     vals  |-> <<<<>>, <<>>, <<>>, <<>>, <<>>, <<>>>>]

GuestHives ==
    {GuestHive(1), GuestHive(2), StubbedHive, NoServicesHive, PlainHive,
     LiteralHive}

Hypervisors == {"kvm", "xen", "vmware"}

Versions == {<<6, 2>>, <<6, 1>>, <<6, 0>>, <<5, 2>>, <<10, 0>>}

Guests ==
    {[roots |-> 1, ostype |-> o, major |-> v[1], minor |-> v[2], arch |-> a] :
        o \in {"windows", "linux", "freebsd"}, v \in Versions,
        a \in {"x86_64", "i386", "ia64"}}
    \cup {[roots |-> 2, ostype |-> "windows", major |-> 6, minor |-> 1,
           arch |-> "x86_64"]}

\* self.mountpoints: the device of each mount point, a mount point being the
\* sequence of the parts of its path
mountpoints ==
    [m \in {<<"/">>, <<"/", "boot">>} |->
        IF m = <<"/">> THEN "/dev/sda2" ELSE "/dev/sda1"]

Devices == {mountpoints[m] : m \in DOMAIN mountpoints}

\* def compare(a, b): return len(a) - len(b)
compare(a, b) == Len(a) - Len(b)

\* sorted(keys, compare)
sorted(keys) ==
    CHOOSE s \in [1..Cardinality(keys) -> keys] :
        /\ \A i, j \in 1..Cardinality(keys) : s[i] = s[j] => i = j
        /\ \A i, j \in 1..Cardinality(keys) :
              i < j => compare(s[i], s[j]) <= 0

\* the orders in which the items of a dict may come
Orders(items) ==
    {s \in [1..Cardinality(items) -> items] :
        \A i, j \in 1..Cardinality(items) : s[i] = s[j] => i = j}

\* a call on the guest session and whether it returned
GfsCall(name, source, target, ok) ==
    [call |-> name, source |-> source, dest |-> target, ok |-> ok]

----------------------------------------------------------------------------
(* Free sessions on one hive: the calls of SimpleHivex in any order, edits
   coming before the commit *)

\* made: whether the call created a node
Call(op, e) == [op |-> op, err |-> e, made |-> FALSE]

Idle ==
    /\ pc = "idle" /\ err = NoError /\ dest = "" /\ gfs = "None"
    /\ guest = [roots |-> 0, ostype |-> "", major |-> 0, minor |-> 0,
                arch |-> ""]
    /\ launches = 0 /\ registered = FALSE /\ guest_hive = NoFile
    /\ tmpdir = "none" /\ guest_dir = FALSE /\ mkdirs = 0 /\ uploaded = {}
    /\ mounts = {} /\ mount_calls = 0 /\ ip = 0
    /\ gfs_calls = <<>> /\ ops = 0

Closed ==
    /\ hive = NoFile /\ hstate = "closed" /\ current_node = None
    /\ at_root = FALSE /\ ccs = "" /\ commits = 0 /\ created = 0 /\ writes = 0
    /\ last = Call("none", NoError)

InitHive ==
    /\ file \in SessionHives
    /\ Closed
    /\ Idle

\* SimpleHivex.__init__(hive_path)
Open ==
    /\ hstate = "closed"
    /\ LET r == SimpleHivex_ccs(file) IN
       /\ hive' = file
       /\ at_root' = TRUE
       /\ current_node' = root
       /\ ccs' = r.ccs
       /\ hstate' = IF r.err = NoError THEN "open" ELSE "failed"
       /\ last' = Call("open", r.err)
    /\ UNCHANGED <<file, commits, created, writes>>
    /\ UNCHANGED cvars

NavigateIn(paths) ==
    /\ hstate = "open"
    /\ \E key_path \in paths :
         LET r == navigate_to(hive, current_node, at_root, ccs, key_path) IN
         /\ current_node' = r.node
         /\ at_root' = r.at_root
         /\ last' = Call("navigate_to", r.err)
    /\ UNCHANGED <<hive, file, hstate, ccs, commits, created, writes>>
    /\ UNCHANGED cvars

CallNavigateTo == NavigateIn(InputPaths)

CallAddSubkey ==
    /\ hstate = "open"
    /\ \E name \in SubkeyNames, store_ok \in BOOLEAN :
         LET r == add_subkey(hive, current_node, at_root, name, store_ok)
             n == Len(r.h.nodes) - Len(hive.nodes)
         IN
         /\ created + n <= MaxNewKeys
         /\ n > 0 => commits = 0
         /\ hive' = r.h
         /\ current_node' = r.node
         /\ at_root' = r.at_root
         /\ created' = created + n
         /\ last' = [Call("add_subkey", r.err) EXCEPT !.made = n > 0]
    /\ UNCHANGED <<file, hstate, ccs, commits, writes>>
    /\ UNCHANGED cvars

Written(r, op) ==
    LET n == IF r.err = NoError THEN 1 ELSE 0 IN
    /\ writes + n <= MaxWrites
    /\ n > 0 => commits = 0
    /\ hive' = r.h
    /\ writes' = writes + n
    /\ last' = Call(op, r.err)
    /\ UNCHANGED <<file, hstate, current_node, at_root, ccs, commits, created>>
    /\ UNCHANGED cvars

CallAddRegSz ==
    /\ hstate = "open"
    /\ \E k \in ValueNames, v \in InputValues, store_ok \in BOOLEAN :
         Written(add_reg_sz(hive, current_node, k, v, store_ok),
                 "add_reg_sz")

CallAddRegExpandSz ==
    /\ hstate = "open"
    /\ \E k \in ValueNames, v \in InputValues, store_ok \in BOOLEAN :
         Written(add_reg_expand_sz(hive, current_node, k, v, store_ok),
                 "add_reg_expand_sz")

CallAddRegDword ==
    /\ hstate = "open"
    /\ \E k \in ValueNames, v \in InputValues, store_ok \in BOOLEAN :
         Written(add_reg_dword(hive, current_node, k, v, store_ok),
                 "add_reg_dword")

CallAddValue ==
    /\ hstate = "open"
    /\ \E t \in TypeTags, k \in ValueNames, v \in InputValues,
          store_ok \in BOOLEAN :
         Written(add_value(hive, current_node, t, k, v, store_ok),
                 "add_value")

\* SimpleHivex.commit: h.commit(None) rewrites the file the hive was opened from
CallCommit ==
    /\ hstate = "open"
    /\ commits < MaxCommits
    /\ \E store_ok \in BOOLEAN :
         /\ file' = IF store_ok THEN hive ELSE file
         /\ last' = Call("commit", IF store_ok THEN NoError ELSE "CommitFailed")
    /\ commits' = commits + 1
    /\ UNCHANGED <<hive, hstate, current_node, at_root, ccs, created, writes>>
    /\ UNCHANGED cvars

\* Navigation and subkey creation on an open hive
NextNav ==
    \/ Open
    \/ CallNavigateTo
    \/ CallAddSubkey

SpecNav == InitHive /\ [][NextNav]_vars

\* Value writes and the commit, at the keys of EditPaths
InitEdit ==
    /\ file \in EditHives
    /\ Closed
    /\ Idle

Goto == NavigateIn(EditPaths)

NextEdit ==
    \/ Open
    \/ Goto
    \/ CallAddRegSz
    \/ CallAddRegExpandSz
    \/ CallAddRegDword
    \/ CallAddValue
    \/ CallCommit

SpecEdit == InitEdit /\ [][NextEdit]_vars

----------------------------------------------------------------------------
(* Calls of the public operations of an Image *)

\* a convert() call on a freshly constructed Image
Init ==
    /\ Closed
    /\ file = NoFile
    /\ pc = "idle" /\ err = NoError
    /\ dest \in Hypervisors
    /\ guest \in Guests
    /\ guest_hive \in GuestHives
    /\ guest_dir \in BOOLEAN
    /\ gfs = "None" /\ launches = 0 /\ registered = FALSE
    /\ tmpdir = "none" /\ mkdirs = 0 /\ uploaded = {}
    /\ mounts = {} /\ mount_calls = 0 /\ ip = 0
    /\ gfs_calls = <<>> /\ ops = 1

Goes(to) == pc' = to /\ err' = err

Raises(e) == pc' = "failed" /\ err' = e

\* The wrapper of @active_guestfs up to the call of func. self.gfs is assigned
\* before add_drive_opts and launch are called, so a launch that raises leaves
\* a session object that was never launched; launched: whether launch returned
SessionAfter(launched) ==
    IF gfs # "None" THEN gfs ELSE IF launched THEN "active" ELSE "unlaunched"

Session(launched) ==
    /\ gfs' = SessionAfter(launched)
    /\ launches' = IF gfs = "None" THEN launches + 1 ELSE launches

LaunchRaised(launched) == gfs = "None" /\ ~launched

\* info() after its wrapper: the error it ends with on that session and guest;
\* a session that was not launched refuses inspect_os
info(session, g) ==
    IF session # "active" THEN "RuntimeError"
    ELSE IF g.roots # 1 THEN "BadImage"
    ELSE NoError

\* @active_guestfs of convert
ActiveGuestfs ==
    /\ pc = "idle"
    /\ \E launched \in BOOLEAN :
         /\ Session(launched)
         /\ IF LaunchRaised(launched) THEN Raises("RuntimeError")
            ELSE Goes("registered_info")
    /\ UNCHANGED <<dest, guest, registered, guest_hive, tmpdir, guest_dir,
                   mkdirs, uploaded, mounts, mount_calls, ip, gfs_calls, ops>>
    /\ UNCHANGED hvars

\* @registered_info of convert: info() when disk_format is not set yet
RegisteredInfo ==
    /\ pc = "registered_info"
    /\ IF registered
       THEN registered' = registered /\ Goes("mounted_devices")
       ELSE LET e == info(gfs, guest) IN
            /\ registered' = (e = NoError)
            /\ IF e = NoError THEN Goes("mounted_devices") ELSE Raises(e)
    /\ UNCHANGED <<dest, guest, gfs, launches, guest_hive, tmpdir, guest_dir,
                   mkdirs, uploaded, mounts, mount_calls, ip, gfs_calls, ops>>
    /\ UNCHANGED hvars

\* mutant: a mount that raises ends the call
MountedDevices_raises ==
    /\ pc = "mounted_devices"
    /\ LET order == sorted(DOMAIN mountpoints)
           todo  == SelectSeq(order, LAMBDA m : mountpoints[m] \notin mounts)
       IN  \E n \in 0..Len(todo) :
             /\ mounts' = mounts \cup {mountpoints[todo[i]] : i \in 1..n}
             /\ mount_calls' = mount_calls + (IF n < Len(todo) THEN n + 1 ELSE n)
             /\ gfs_calls' = gfs_calls \o
                   [i \in 1..(IF n < Len(todo) THEN n + 1 ELSE n) |->
                       GfsCall("mount", <<mountpoints[todo[i]]>>, todo[i],
                               i <= n)]
             /\ IF n < Len(todo) THEN Raises("RuntimeError")
                ELSE Goes("dispatch")
    /\ UNCHANGED <<dest, guest, gfs, launches, registered, guest_hive, tmpdir,
                   guest_dir, mkdirs, uploaded, ip, ops>>
    /\ UNCHANGED hvars

\* @mounted_devices of convert: the mount points by length of path, each one
\* whose device gfs.mounts() does not list is mounted, and a mount that raises
\* RuntimeError is printed and passed over
MountedDevices ==
    /\ pc = "mounted_devices"
    /\ LET order == sorted(DOMAIN mountpoints)
           todo  == SelectSeq(order, LAMBDA m : mountpoints[m] \notin mounts)
       IN  \E ok \in SUBSET {mountpoints[todo[i]] : i \in 1..Len(todo)} :
             /\ mounts' = mounts \cup ok
             /\ mount_calls' = mount_calls + Len(todo)
             /\ gfs_calls' = gfs_calls \o
                   [i \in 1..Len(todo) |->
                       GfsCall("mount", <<mountpoints[todo[i]]>>, todo[i],
                               mountpoints[todo[i]] \in ok)]
    /\ Goes("dispatch")
    /\ UNCHANGED <<dest, guest, gfs, launches, registered, guest_hive, tmpdir,
                   guest_dir, mkdirs, uploaded, ip, ops>>
    /\ UNCHANGED hvars

\* the body of convert
Dispatch ==
    /\ pc = "dispatch"
    /\ LET f == converter(dest, guest.ostype) IN
       IF f = "None" THEN Raises(NoConverter(dest, guest.ostype)) ELSE Goes(f)
    /\ UNCHANGED <<dest, guest, gfs, launches, registered, guest_hive, tmpdir,
                   guest_dir, mkdirs, uploaded, mounts, mount_calls, ip,
                   gfs_calls, ops>>
    /\ UNCHANGED hvars

\* convert_xen_windows, with its @active_guestfs
ConvertXenWindows ==
    /\ pc = "convert_xen_windows"
    /\ \E launched \in BOOLEAN :
         /\ Session(launched)
         /\ Raises(IF LaunchRaised(launched) THEN "RuntimeError"
                   ELSE "NotImplemented")
    /\ UNCHANGED <<dest, guest, registered, guest_hive, tmpdir, guest_dir,
                   mkdirs, uploaded, mounts, mount_calls, ip, gfs_calls, ops>>
    /\ UNCHANGED hvars

\* convert_xen_linux, with its @active_guestfs
ConvertXenLinux ==
    /\ pc = "convert_xen_linux"
    /\ \E launched \in BOOLEAN :
         /\ Session(launched)
         /\ Raises(IF LaunchRaised(launched) THEN "RuntimeError"
                   ELSE "NotImplemented")
    /\ UNCHANGED <<dest, guest, registered, guest_hive, tmpdir, guest_dir,
                   mkdirs, uploaded, mounts, mount_calls, ip, gfs_calls, ops>>
    /\ UNCHANGED hvars

\* convert_kvm_linux, with its @active_guestfs
ConvertKvmLinux ==
    /\ pc = "convert_kvm_linux"
    /\ \E launched \in BOOLEAN :
         /\ Session(launched)
         /\ IF LaunchRaised(launched) THEN Raises("RuntimeError")
            ELSE Goes("done")
    /\ UNCHANGED <<dest, guest, registered, guest_hive, tmpdir, guest_dir,
                   mkdirs, uploaded, mounts, mount_calls, ip, gfs_calls, ops>>
    /\ UNCHANGED hvars

\* convert_kvm_windows, with its @active_guestfs -> _windows_common_fixups:
\* tempfile.mkdtemp()
Mkdtemp ==
    /\ pc = "convert_kvm_windows"
    /\ \E launched \in BOOLEAN :
         /\ Session(launched)
         /\ IF LaunchRaised(launched)
            THEN tmpdir' = tmpdir /\ Raises("RuntimeError")
            ELSE tmpdir' = "exists" /\ Goes("download_hive")
    /\ UNCHANGED <<dest, guest, registered, guest_hive, guest_dir, mkdirs,
                   uploaded, mounts, mount_calls, ip, gfs_calls, ops>>
    /\ UNCHANGED hvars

\* _download_hive('system', tmpdir): the guest's hive is copied into tmpdir
DownloadHive ==
    /\ pc = "download_hive"
    /\ \E ok \in BOOLEAN :
         IF ok /\ gfs = "active"
         THEN file' = guest_hive /\ Goes("upload_virtio")
         ELSE file' = file /\ Raises("RuntimeError")
    /\ UNCHANGED <<dest, guest, gfs, launches, registered, guest_hive, tmpdir,
                   guest_dir, mkdirs, uploaded, mounts, mount_calls, ip,
                   gfs_calls, ops>>
    /\ UNCHANGED <<hive, hstate, current_node, at_root, ccs, commits, created,
                   writes, last>>

\* _upload_virtio(virtio_base): the version and architecture that info()
\* recorded, the directory, then the uploads in the order of the dict's items;
\* a call the guest session refuses ends the run
UploadVirtio ==
    /\ pc = "upload_virtio"
    /\ IF ~registered
       THEN /\ Raises("AttributeError")
            /\ UNCHANGED <<guest_dir, mkdirs, uploaded, gfs_calls>>
       ELSE LET plan == upload_virtio_plan(guest, virtio_base, guest_dir) IN
            IF plan.err # NoError
            THEN /\ Raises(plan.err)
                 /\ UNCHANGED <<guest_dir, mkdirs, uploaded, gfs_calls>>
            ELSE \/ /\ plan.mkdir
                    /\ gfs_calls' = gfs_calls \o
                          <<GfsCall("mkdir_p", <<>>, <<dest_path>>, FALSE)>>
                    /\ mkdirs' = mkdirs + 1
                    /\ Raises("RuntimeError")
                    /\ UNCHANGED <<guest_dir, uploaded>>
                 \/ \E order \in Orders(plan.file_list),
                       n \in 0..Cardinality(plan.file_list) :
                      LET tried == IF n < Len(order) THEN n + 1 ELSE n IN
                      /\ guest_dir' = TRUE
                      /\ mkdirs' = IF plan.mkdir THEN mkdirs + 1 ELSE mkdirs
                      /\ uploaded' = uploaded \cup {order[i] : i \in 1..n}
                      /\ gfs_calls' = gfs_calls
                            \o (IF plan.mkdir
                                THEN <<GfsCall("mkdir_p", <<>>, <<dest_path>>,
                                               TRUE)>>
                                ELSE <<>>)
                            \o [i \in 1..tried |->
                                   GfsCall("upload", order[i].source,
                                           order[i].dest, i <= n)]
                      /\ IF n = Len(order) THEN Goes("stub_viostor")
                         ELSE Raises("RuntimeError")
    /\ UNCHANGED <<dest, guest, gfs, launches, registered, guest_hive, tmpdir,
                   mounts, mount_calls, ip, ops>>
    /\ UNCHANGED hvars

\* _stub_viostor(system_hive): h = SimpleHivex(system_hive)
StubOpen ==
    /\ pc = "stub_viostor"
    /\ LET r == SimpleHivex_ccs(file) IN
       /\ hive' = file
       /\ at_root' = TRUE
       /\ current_node' = root
       /\ ccs' = r.ccs
       /\ hstate' = IF r.err = NoError THEN "open" ELSE "failed"
       /\ last' = Call("open", r.err)
       /\ IF r.err = NoError
          THEN pc' = "script" /\ err' = err /\ ip' = 1
          ELSE Raises(r.err) /\ ip' = ip
    /\ UNCHANGED <<file, commits, created, writes>>
    /\ UNCHANGED <<dest, guest, gfs, launches, registered, guest_hive, tmpdir,
                   guest_dir, mkdirs, uploaded, mounts, mount_calls,
                   gfs_calls, ops>>

\* after a call of the script: the next one, the return, or the exception
Then(e) ==
    IF e # NoError THEN Raises(e) /\ ip' = ip
    ELSE IF ip = Len(stub_viostor) THEN Goes("done") /\ ip' = ip
    ELSE Goes("script") /\ ip' = ip + 1

StubNavigateTo ==
    /\ pc = "script"
    /\ stub_viostor[ip].op = "navigate_to"
    /\ LET r == navigate_to(hive, current_node, at_root, ccs,
                            stub_viostor[ip].arg) IN
       /\ current_node' = r.node
       /\ at_root' = r.at_root
       /\ last' = Call("navigate_to", r.err)
       /\ Then(r.err)
    /\ UNCHANGED <<hive, file, hstate, ccs, commits, created, writes>>
    /\ UNCHANGED <<dest, guest, gfs, launches, registered, guest_hive, tmpdir,
                   guest_dir, mkdirs, uploaded, mounts, mount_calls,
                   gfs_calls, ops>>

StubAddSubkey ==
    /\ pc = "script"
    /\ stub_viostor[ip].op = "add_subkey"
    /\ \E store_ok \in BOOLEAN :
         LET r == add_subkey(hive, current_node, at_root,
                             stub_viostor[ip].arg[1], store_ok) IN
         /\ hive' = r.h
         /\ current_node' = r.node
         /\ at_root' = r.at_root
         /\ created' = created + (Len(r.h.nodes) - Len(hive.nodes))
         /\ last' = [Call("add_subkey", r.err) EXCEPT
                        !.made = Len(r.h.nodes) > Len(hive.nodes)]
         /\ Then(r.err)
    /\ UNCHANGED <<file, hstate, ccs, commits, writes>>
    /\ UNCHANGED <<dest, guest, gfs, launches, registered, guest_hive, tmpdir,
                   guest_dir, mkdirs, uploaded, mounts, mount_calls,
                   gfs_calls, ops>>

StubAddValue ==
    /\ pc = "script"
    /\ stub_viostor[ip].op \in {"add_reg_sz", "add_reg_expand_sz",
                                "add_reg_dword"}
    /\ \E store_ok \in BOOLEAN :
         LET c == stub_viostor[ip]
             r == CASE c.op = "add_reg_sz" ->
                         add_reg_sz(hive, current_node, c.key, c.value, store_ok)
                    [] c.op = "add_reg_expand_sz" ->
                         add_reg_expand_sz(hive, current_node, c.key, c.value,
                                           store_ok)
                    [] c.op = "add_reg_dword" ->
                         add_reg_dword(hive, current_node, c.key, c.value,
                                       store_ok)
         IN
         /\ hive' = r.h
         /\ writes' = writes + (IF r.err = NoError THEN 1 ELSE 0)
         /\ last' = Call(c.op, r.err)
         /\ Then(r.err)
    /\ UNCHANGED <<file, hstate, current_node, at_root, ccs, commits, created>>
    /\ UNCHANGED <<dest, guest, gfs, launches, registered, guest_hive, tmpdir,
                   guest_dir, mkdirs, uploaded, mounts, mount_calls,
                   gfs_calls, ops>>

\* h.commit(): the host's copy of the hive is rewritten
StubCommit ==
    /\ pc = "script"
    /\ stub_viostor[ip].op = "commit"
    /\ \E store_ok \in BOOLEAN :
         /\ file' = IF store_ok THEN hive ELSE file
         /\ last' = Call("commit", IF store_ok THEN NoError ELSE "CommitFailed")
         /\ Then(IF store_ok THEN NoError ELSE "CommitFailed")
    /\ commits' = commits + 1
    /\ UNCHANGED <<hive, hstate, current_node, at_root, ccs, created, writes>>
    /\ UNCHANGED <<dest, guest, gfs, launches, registered, guest_hive, tmpdir,
                   guest_dir, mkdirs, uploaded, mounts, mount_calls,
                   gfs_calls, ops>>

Next ==
    \/ ActiveGuestfs
    \/ RegisteredInfo
    \/ MountedDevices
    \/ Dispatch
    \/ ConvertXenWindows
    \/ ConvertXenLinux
    \/ ConvertKvmLinux
    \/ Mkdtemp
    \/ DownloadHive
    \/ UploadVirtio
    \/ StubOpen
    \/ StubNavigateTo
    \/ StubAddSubkey
    \/ StubAddValue
    \/ StubCommit

Spec == Init /\ [][Next]_vars

----------------------------------------------------------------------------
(* Any sequence of calls of the public operations on one Image *)

PublicOps ==
    {"info", "convert", "convert_kvm_windows", "convert_xen_windows",
     "convert_kvm_linux", "convert_xen_linux", "to_qcow2"}

\* the images of the sequences: a 6.1 x86_64 guest of each OS family, and a
\* disk with two roots
ImageGuests ==
    {g \in Guests : g.major = 6 /\ g.minor = 1 /\ g.arch = "x86_64"}

\* Image(image_path, readonly)
InitImage ==
    /\ Closed
    /\ file = NoFile
    /\ pc = "ready" /\ err = NoError /\ dest = ""
    /\ guest \in ImageGuests
    /\ guest_hive = GuestHive(1)
    /\ guest_dir = FALSE
    /\ gfs = "None" /\ launches = 0 /\ registered = FALSE
    /\ tmpdir = "none" /\ mkdirs = 0 /\ uploaded = {}
    /\ mounts = {} /\ mount_calls = 0 /\ ip = 0
    /\ gfs_calls = <<>> /\ ops = 0

\* The caller calls an operation once the one before has returned or raised;
\* convert begins at its outermost wrapper, the others at their own. What is
\* local to a call (the hive object, the downloaded file, the error, the log
\* of the call) starts afresh
CallOperation ==
    /\ pc \in {"ready", "done", "failed"}
    /\ ops < MaxCalls
    /\ \E op \in PublicOps, destination_hypervisor \in Hypervisors :
         /\ pc' = IF op = "convert" THEN "idle" ELSE op
         /\ dest' = IF op = "convert" THEN destination_hypervisor ELSE ""
    /\ err' = NoError /\ ops' = ops + 1 /\ gfs_calls' = <<>> /\ ip' = 0
    /\ file' = NoFile /\ hive' = NoFile /\ hstate' = "closed"
    /\ current_node' = None /\ at_root' = FALSE /\ ccs' = ""
    /\ commits' = 0 /\ created' = 0 /\ writes' = 0
    /\ last' = Call("none", NoError)
    /\ UNCHANGED <<guest, gfs, launches, registered, guest_hive, tmpdir,
                   guest_dir, mkdirs, uploaded, mounts, mount_calls>>

\* info(), with its @active_guestfs
Info ==
    /\ pc = "info"
    /\ \E launched \in BOOLEAN :
         /\ Session(launched)
         /\ IF LaunchRaised(launched)
            THEN registered' = registered /\ Raises("RuntimeError")
            ELSE LET e == info(SessionAfter(launched), guest) IN
                 /\ registered' = (registered \/ e = NoError)
                 /\ IF e = NoError THEN Goes("done") ELSE Raises(e)
    /\ UNCHANGED <<dest, guest, guest_hive, tmpdir, guest_dir, mkdirs,
                   uploaded, mounts, mount_calls, ip, gfs_calls, ops>>
    /\ UNCHANGED hvars

\* to_qcow2(), with its @active_guestfs: info() when disk_format is not set,
\* then nothing more, './win.qcow2' being a qcow2 image already
ToQcow2 ==
    /\ pc = "to_qcow2"
    /\ \E launched \in BOOLEAN :
         /\ Session(launched)
         /\ IF LaunchRaised(launched)
            THEN registered' = registered /\ Raises("RuntimeError")
            ELSE IF registered
            THEN registered' = registered /\ Goes("done")
            ELSE LET e == info(SessionAfter(launched), guest) IN
                 /\ registered' = (e = NoError)
                 /\ IF e = NoError THEN Goes("done") ELSE Raises(e)
    /\ UNCHANGED <<dest, guest, guest_hive, tmpdir, guest_dir, mkdirs,
                   uploaded, mounts, mount_calls, ip, gfs_calls, ops>>
    /\ UNCHANGED hvars

NextImage ==
    \/ CallOperation
    \/ Info
    \/ ToQcow2
    \/ ActiveGuestfs
    \/ RegisteredInfo
    \/ MountedDevices
    \/ Dispatch
    \/ ConvertXenWindows
    \/ ConvertXenLinux
    \/ ConvertKvmLinux
    \/ Mkdtemp
    \/ DownloadHive
    \/ UploadVirtio
    \/ StubOpen
    \/ StubNavigateTo
    \/ StubAddSubkey
    \/ StubAddValue
    \/ StubCommit

SpecImage == InitImage /\ [][NextImage]_vars

----------------------------------------------------------------------------
(* Properties of the conversion run (Spec) *)

KvmWindows == dest = "kvm" /\ guest.ostype = "windows"

\* C1: when convert() to 'kvm' on a Windows guest has completed, the guest's
\* system hive is the committed hive: what was downloaded and edited has been
\* uploaded back to the guest before the routine returns.
C1_HiveWrittenBack ==
    (pc = "done" /\ KvmWindows) => guest_hive = file

\* C2: commit() is called at most once in a run and no hive mutation follows
\* it; until it is called the backing file holds what was downloaded; a run
\* that raised at any call before the commit has called commit() zero times.
C2_CommitOnceAfterMutations ==
    /\ [](/\ commits <= 1
          /\ commits = 0 => file \in {NoFile, guest_hive}
          /\ (pc = "failed" /\ last.op # "commit") => commits = 0)
    /\ [][commits >= 1 => hive' = hive]_vars

\* a run that raised in the middle of the script, after it had edited the hive
C2_Witness ==
    /\ pc = "failed" /\ last.op = "navigate_to" /\ err = "KeyNotFound"
    /\ writes > 0 /\ created > 0 /\ hive # file
    /\ commits = 0 /\ file = guest_hive

\* C4: once the run has ended, by returning or by raising, the temporary
\* directory that held the downloaded hive no longer exists.
C4_TmpdirDeleted ==
    pc \in {"done", "failed"} => tmpdir # "exists"

(* C3 *)

Package(major, minor) ==
    CASE major = 6 /\ minor = 2 -> "WIN8"
      [] major = 6 /\ minor = 1 -> "WIN7"
      [] major = 6 /\ minor = 0 -> "WLH"
      [] major = 5 /\ minor = 2 -> "WNET"
      [] OTHER -> "?"

Directory(arch) ==
    CASE arch = "x86_64" -> "AMD64" [] arch = "i386" -> "X86" [] OTHER -> "?"

ChildrenNamed(h, parent, name) ==
    {i \in 1..Len(h.nodes) : h.nodes[i].parent = parent /\ h.nodes[i].name = name}

TheChild(h, parent, name) == CHOOSE i \in ChildrenNamed(h, parent, name) : TRUE

\* the values of a node as a set, and the number of its values of one name
ValuesOf(h, node) == {h.vals[node][i] : i \in 1..Len(h.vals[node])}

Holds(h, node, name, t, bytes) ==
    /\ Cardinality({i \in 1..Len(h.vals[node]) : h.vals[node][i].key = name}) = 1
    /\ [key |-> name, t |-> t, value |-> bytes] \in ValuesOf(h, node)

\* the control set Select/Current of the guest's hive points at
CurrentSet(h) ==
    IF ChildrenNamed(h, 1, "Select") = {} THEN "CurrentControlSet"
    ELSE LET sel == TheChild(h, 1, "Select")
             cur == CHOOSE v \in ValuesOf(h, sel) : v.key = "Current"
         IN  IF cur.value = <<1, 0, 0, 0>> THEN "ControlSet001"
             ELSE "ControlSet002"

Suffixes == {"00000000", "00020000", "00021af4"}

DeviceKey(suffix) == "pci#ven_1af4&dev_1001&subsys_" \o suffix

viostor_bytes == <<118, 0, 105, 0, 111, 0, 115, 0, 116, 0, 111, 0, 114, 0>>

SCSI_miniport_bytes ==
    <<83, 0, 67, 0, 83, 0, 73, 0, 32, 0, 109, 0, 105, 0, 110, 0, 105, 0, 112, 0,
      111, 0, 114, 0, 116, 0>>

Staged ==
    LET from == <<"virtio", Package(guest.major, guest.minor),
                  Directory(guest.arch)>>
    IN  /\ uploaded = {[source |-> Append(from, f), dest |-> <<"/v2v-virtio", f>>] :
                          f \in {"VIOSTOR.SYS", "viostor.inf"}}
        /\ (guest.major = 6 /\ guest.minor = 1 /\ guest.arch = "x86_64")
              => \A u \in uploaded :
                    SubSeq(u.source, 1, 3) = <<"virtio", "WIN7", "AMD64">>

Stubbed ==
    LET cs  == TheChild(file, 1, CurrentSet(guest_hive))
        cdd == TheChild(file, TheChild(file, cs, "Control"),
                        "CriticalDeviceDatabase")
        svc == TheChild(file, cs, "Services")
        dev == {TheChild(file, cdd, DeviceKey(s)) : s \in Suffixes}
        drv == TheChild(file, svc, "viostor")
        old == Len(guest_hive.nodes)
        written == [i \in dev \cup {drv} |->
                       IF i = drv
                       THEN {"ErrorControl", "Group", "Start", "Tag", "Type",
                             "ImagePath"}
                       ELSE {"ClassGUID", "Service"}]
    IN  /\ \A s \in Suffixes :
              /\ Cardinality(ChildrenNamed(file, cdd, DeviceKey(s))) = 1
              /\ Holds(file, TheChild(file, cdd, DeviceKey(s)), "ClassGUID",
                       1, encode_utf_16le(ClassGUID))
              /\ Holds(file, TheChild(file, cdd, DeviceKey(s)), "Service",
                       1, viostor_bytes)
        /\ Cardinality(ChildrenNamed(file, svc, "viostor")) = 1
        /\ Holds(file, drv, "ErrorControl", 4, <<1, 0, 0, 0>>)
        /\ Holds(file, drv, "Group", 1, SCSI_miniport_bytes)
        /\ Holds(file, drv, "Start", 4, <<0, 0, 0, 0>>)
        /\ Holds(file, drv, "Tag", 4, <<33, 0, 0, 0>>)
        /\ Holds(file, drv, "Type", 4, <<1, 0, 0, 0>>)
        /\ \E v \in ValuesOf(file, drv) : v.key = "ImagePath" /\ v.t = 2
        /\ Cardinality({i \in 1..Len(file.vals[drv]) :
                           file.vals[drv][i].key = "ImagePath"}) = 1
        \* nothing else is touched
        /\ SubSeq(file.nodes, 1, old) = guest_hive.nodes
        /\ \A i \in 1..Len(file.nodes) :
              /\ i > old => i \in dev \cup {drv}
              /\ i \notin dev \cup {drv} => file.vals[i] = guest_hive.vals[i]
              /\ i \in dev \cup {drv} =>
                    {v \in ValuesOf(file, i) : v.key \notin written[i]}
                      = IF i > old THEN {}
                        ELSE {v \in ValuesOf(guest_hive, i) :
                                 v.key \notin written[i]}

\* C3: a successful (kvm, windows) conversion has staged the regular files of
\* <base>/<package of the version>/<directory of the architecture> (WIN7/AMD64
\* for 6.1 on x86_64), its committed hive holds exactly one device key per
\* subsystem suffix with ClassGUID and Service = 'viostor' and exactly one
\* viostor service key with the six service values, under the control set
\* that Select/Current names, it has committed exactly once, and it differs
\* from the guest's hive in nothing else.
C3_KvmWindowsResult ==
    (pc = "done" /\ KvmWindows) =>
        /\ Staged
        /\ Stubbed
        /\ commits = 1
        /\ file = hive

\* a 6.1 x86_64 guest whose hive had one device key and the service key already
C3_Witness ==
    /\ pc = "done" /\ KvmWindows
    /\ guest.major = 6 /\ guest.minor = 1 /\ guest.arch = "x86_64"
    /\ guest_hive = StubbedHive
    /\ created = 2 /\ writes = 12

----------------------------------------------------------------------------
(* Properties of SimpleHivex (SpecNav, SpecEdit) *)

\* the node a walk by exact names ends on, None when a segment has no child
RECURSIVE Walk(_, _, _)
Walk(h, node, segs) ==
    IF segs = <<>> THEN node
    ELSE IF ChildrenNamed(h, node, Head(segs)) = {} THEN None
    ELSE Walk(h, TheChild(h, node, Head(segs)), Tail(segs))

\* the index of the first segment of a walk that has no child, 0 when none
RECURSIVE FirstMissing(_, _, _)
FirstMissing(h, node, segs) ==
    IF segs = <<>> THEN 0
    ELSE IF ChildrenNamed(h, node, Head(segs)) = {} THEN 1
    ELSE LET m == FirstMissing(h, TheChild(h, node, Head(segs)), Tail(segs))
         IN  IF m = 0 THEN 0 ELSE m + 1

\* a call navigate_to(p) in the current state: the node the walk starts at,
\* the segments of p as written, and the segments with a first segment
\* 'CurrentControlSet' of a walk from the root replaced by the alias
StartOf(p) == IF split(p)[1] = "" THEN root ELSE current_node

Written_segs(p) == IF split(p)[1] = "" THEN Tail(split(p)) ELSE split(p)

Resolved_segs(p) ==
    LET segs == Written_segs(p) IN
    IF StartOf(p) = root /\ segs # <<>> /\ segs[1] = "CurrentControlSet"
    THEN <<ccs>> \o Tail(segs)
    ELSE segs

Result(p) == navigate_to(hive, current_node, at_root, ccs, p)

\* C5: after navigating to any parent, add_subkey(name) followed by a second
\* add_subkey(name) from the same parent leaves exactly one child of that
\* name, both calls end on that child with at_root cleared, the second call
\* changes nothing in the hive even when the store could not create a key,
\* no node of a reachable hive has two children of one name, and an
\* add_subkey that finds the child creates no node.
C5_State ==
    hstate = "open" =>
        /\ \A i, j \in 1..Len(hive.nodes) : hive.nodes[i] = hive.nodes[j] => i = j
        /\ \A parent \in 1..Len(hive.nodes), name \in SubkeyNames,
              flag \in BOOLEAN, again_ok \in BOOLEAN :
              LET r1 == add_subkey(hive, parent, flag, name, TRUE)
                  r2 == add_subkey(r1.h, parent, flag, name, again_ok)
              IN  /\ r1.err = NoError /\ r2.err = NoError
                  /\ r2.h = r1.h /\ r2.node = r1.node
                  /\ ~r1.at_root /\ ~r2.at_root
                  /\ r2.h.nodes[r2.node] = key(parent, name)
                  /\ Cardinality(ChildrenNamed(r2.h, parent, name)) = 1
        /\ (last.op = "add_subkey" /\ last.err = NoError) =>
              /\ ~at_root
              /\ current_node \in 1..Len(hive.nodes)

C5_Step ==
    (last'.op = "add_subkey" /\ last'.err = NoError /\ hstate = "open") =>
        /\ hive'.nodes[current_node'].parent = current_node
        /\ ChildrenNamed(hive, current_node, hive'.nodes[current_node'].name) # {}
              => hive' = hive /\ ~last'.made

C5_AddSubkeyIdempotent == []C5_State /\ [][C5_Step]_vars

\* the second add_subkey of a name the session itself created
C5_Witness ==
    /\ hstate = "open" /\ created = 1
    /\ last.op = "add_subkey" /\ last.err = NoError /\ ~last.made
    /\ current_node = Len(hive.nodes) /\ ~at_root

(* C6 *)

Digit(d) ==
    CASE d = 0 -> "0" [] d = 1 -> "1" [] d = 2 -> "2" [] d = 3 -> "3"
      [] d = 4 -> "4" [] d = 5 -> "5" [] d = 6 -> "6" [] d = 7 -> "7"
      [] d = 8 -> "8" [] d = 9 -> "9"

ThreeDigits(n) ==
    Digit((n \div 100) % 10) \o Digit((n \div 10) % 10) \o Digit(n % 10)

HasCurrent(h) ==
    /\ ChildrenNamed(h, 1, "Select") # {}
    /\ \E v \in ValuesOf(h, TheChild(h, 1, "Select")) : v.key = "Current"

SelectCurrent(h) ==
    LET cur == CHOOSE v \in ValuesOf(h, TheChild(h, 1, "Select")) :
                   v.key = "Current"
    IN  cur.value[1] + 256 * cur.value[2]

C6_Equivalent ==
    (hstate = "open" /\ ccs # "CurrentControlSet") =>
        /\ Result(<<"/", "CurrentControlSet">>) = Result(<<"/", ccs>>)
        /\ \A X \in InputPaths :
              Result(<<"/", "CurrentControlSet", "/">> \o X)
                = Result(<<"/", ccs, "/">> \o X)

\* C6: opening a hive whose Select key holds Current = n sets the alias to
\* 'ControlSet' followed by n in three zero-padded digits, no later call
\* changes the alias (not even one that rewrites Select/Current), and
\* navigate_to('/CurrentControlSet/X') has the result of
\* navigate_to('/ControlSetNNN/X') for every X.
C6_AliasResolution ==
    /\ [][(hstate = "closed" /\ hstate' = "open" /\ HasCurrent(file)) =>
             ccs' = "ControlSet" \o ThreeDigits(SelectCurrent(file))]_vars
    /\ [][hstate = "open" => ccs' = ccs]_vars
    /\ []C6_Equivalent

\* navigate_to('/CurrentControlSet') after Select/Current = 12 was overwritten
C6_Witness ==
    /\ hstate = "open" /\ ccs = "ControlSet012"
    /\ SelectCurrent(hive) = 33
    /\ last.op = "navigate_to" /\ last.err = NoError
    /\ hive.nodes[current_node].name = "ControlSet012"

\* C7: a hive with no Select key under the root opens, its alias is the
\* literal 'CurrentControlSet', and navigate_to('/CurrentControlSet/X') walks
\* from the root by the exact names 'CurrentControlSet' and those of X.
C7_NoSelectLiteral ==
    (hstate # "closed" /\ ChildrenNamed(file, 1, "Select") = {}) =>
        /\ hstate = "open"
        /\ ccs = "CurrentControlSet"
        /\ \A X \in InputPaths :
              LET r == Result(<<"/", "CurrentControlSet", "/">> \o X)
                  n == Walk(hive, root, <<"CurrentControlSet">> \o split(X))
              IN  IF n = None THEN r.err = "KeyNotFound"
                  ELSE r.err = NoError /\ r.node = n
        /\ Result(<<"/", "CurrentControlSet">>).node
              = Walk(hive, root, <<"CurrentControlSet">>)

C7_Witness ==
    /\ hstate = "open" /\ ChildrenNamed(file, 1, "Select") = {}
    /\ last.op = "navigate_to" /\ last.err = NoError
    /\ hive.nodes[current_node] = key(root, "CurrentControlSet")

\* C8: a navigate_to call resolves its path by exact names, except that a
\* first segment 'CurrentControlSet' stands for the alias when the walk
\* starts at the hive root; at a later position, or first in a relative path
\* from another node, it is matched literally, and add_subkey(name) ends on a
\* child literally named name, 'CurrentControlSet' included.
C8_AliasOnlyAtRoot ==
    hstate = "open" =>
        /\ \A p \in InputPaths :
              (StartOf(p) # None /\ Written_segs(p) # <<>>) =>
                 LET n == Walk(hive, StartOf(p), Resolved_segs(p)) IN
                 IF n = None THEN Result(p).err = "KeyNotFound"
                 ELSE Result(p).err = NoError /\ Result(p).node = n
        /\ \A name \in SubkeyNames :
              current_node # None =>
                 LET r == add_subkey(hive, current_node, at_root, name, TRUE)
                 IN  r.err = NoError /\ r.h.nodes[r.node] = key(current_node, name)

\* a relative walk that ended on a key literally named CurrentControlSet below
\* another key
C8_Witness ==
    /\ hstate = "open" /\ ccs # "CurrentControlSet"
    /\ last.op = "navigate_to" /\ last.err = NoError
    /\ hive.nodes[current_node].name = "CurrentControlSet"
    /\ hive.nodes[current_node].parent # root

\* C9 as stated: navigate_to fails with KeyNotFound exactly when a segment of
\* the path as written has no child of that name under the node reached so
\* far, and the error names the first such segment.
C9_AsWritten ==
    hstate = "open" =>
        \A p \in InputPaths :
           StartOf(p) # None =>
              LET m == FirstMissing(hive, StartOf(p), Written_segs(p)) IN
              /\ Result(p).err = "KeyNotFound" <=> m # 0
              /\ m # 0 => Result(p).key = Written_segs(p)[m]

C9_State ==
    hstate = "open" =>
        \A p \in InputPaths :
           StartOf(p) # None =>
              LET m == FirstMissing(hive, StartOf(p), Resolved_segs(p)) IN
              /\ Result(p).err = "KeyNotFound" <=> m # 0
              /\ m # 0 => /\ Result(p).key = Resolved_segs(p)[m]
                          /\ Result(p).looked = m

\* C9, amended: a navigate_to call that starts at a node fails with
\* KeyNotFound exactly when a segment has no child of that name under the
\* node reached so far, the alias standing for a first segment
\* 'CurrentControlSet' of a walk from the root; the error names the first such
\* segment, no later segment is looked up, and no navigate_to call changes
\* the hive or its file.
C9_KeyNotFound ==
    /\ []C9_State
    /\ [][last'.op = "navigate_to" => hive' = hive /\ file' = file]_vars

\* a walk that failed after it had left the root
C9_Witness ==
    /\ hstate = "open"
    /\ last.op = "navigate_to" /\ last.err = "KeyNotFound"
    /\ current_node = None /\ ~at_root

Unsupported == TypeTags \ {REG_SZ, REG_EXPAND_SZ, REG_DWORD}

C10_State ==
    hstate = "open" =>
        \A t \in Unsupported, k \in ValueNames, v \in InputValues,
           store_ok \in BOOLEAN :
           LET r == add_value(hive, current_node, t, k, v, store_ok) IN
           r.err = "UnsupportedValueType" /\ r.h = hive

\* C10: a value write with a type tag other than REG_SZ, REG_EXPAND_SZ and
\* REG_DWORD fails with UnsupportedValueType, and the failed call leaves the
\* hive, its file and the cursor as they were.
C10_UnsupportedValueType ==
    /\ []C10_State
    /\ [][(last'.op = "add_value" /\ last'.err = "UnsupportedValueType") =>
             UNCHANGED <<hive, file, current_node, at_root, ccs>>]_vars

\* a refused write at a key that holds a value
C10_Witness ==
    /\ hstate = "open"
    /\ last.op = "add_value" /\ last.err = "UnsupportedValueType"
    /\ current_node # None /\ hive.vals[current_node] # <<>>
    /\ writes = 1

----------------------------------------------------------------------------
(* C11: what a value write stores and what reading it back gives *)

\* the values the round trip is tried on: every byte position of a dword,
\* and text with code units above 255, a surrogate pair and a NUL
RoundTripDwords ==
    {0, 1, 33, 255, 256, 65535, 65536, 16777216, 305419896, 2147483647}

RoundTripTexts ==
    {<<>>, viostor, ImagePath, <<233>>, <<8364, 65>>, <<55357, 56832>>,
     <<65, 0, 66>>}

\* the code units of a UTF-16LE byte string
RECURSIVE decode_utf_16le(_)
decode_utf_16le(bytes) ==
    IF Len(bytes) < 2 THEN <<>>
    ELSE <<bytes[1] + 256 * bytes[2]>>
            \o decode_utf_16le(SubSeq(bytes, 3, Len(bytes)))

\* the value of that name under the node, as node_get_value finds it
ReadBack(h, node, name) == h.vals[node][node_get_value(h, node, name)]

IsBytes(b) == \A i \in 1..Len(b) : b[i] \in 0..255

NamedOnce(h, node, name) ==
    Cardinality({i \in 1..Len(h.vals[node]) : h.vals[node][i].key = name}) = 1

C11_State ==
    (hstate = "open" /\ current_node # None) =>
        \A k \in ValueNames :
           /\ \A v \in RoundTripDwords :
                 LET r == add_reg_dword(hive, current_node, k, Number(v), TRUE)
                     x == ReadBack(r.h, current_node, k)
                 IN  /\ r.err = NoError
                     /\ NamedOnce(r.h, current_node, k)
                     /\ x.t = REG_DWORD
                     /\ Len(x.value) = 4 /\ IsBytes(x.value)
                     /\ value_dword(x) = v
                     /\ v = 33 => x.value = <<33, 0, 0, 0>>
           /\ \A s \in RoundTripTexts :
                 LET r1 == add_reg_sz(hive, current_node, k, Text(s), TRUE)
                     r2 == add_reg_expand_sz(hive, current_node, k, Text(s), TRUE)
                     x1 == ReadBack(r1.h, current_node, k)
                     x2 == ReadBack(r2.h, current_node, k)
                 IN  /\ r1.err = NoError /\ r2.err = NoError
                     /\ NamedOnce(r1.h, current_node, k)
                     /\ NamedOnce(r2.h, current_node, k)
                     /\ x1.t = REG_SZ /\ x2.t = REG_EXPAND_SZ
                     /\ x1.value = x2.value
                     /\ Len(x1.value) = 2 * Len(s) /\ IsBytes(x1.value)
                     /\ decode_utf_16le(x1.value) = s

\* a write of the session that succeeded: the value under the cursor reads
\* back as one of the inputs, with the tag of the call
C11_Step ==
    (last'.err = NoError /\ current_node # None /\ hstate = "open") =>
        LET x == ReadBack(hive', current_node, "Current") IN
        /\ last'.op = "add_reg_dword" =>
              /\ x.t = REG_DWORD
              /\ \E v \in InputValues : v.kind = "int" /\ value_dword(x) = v.int
        /\ last'.op = "add_reg_sz" =>
              /\ x.t = REG_SZ
              /\ \E v \in InputValues :
                    v.kind = "text" /\ decode_utf_16le(x.value) = v.text
        /\ last'.op = "add_reg_expand_sz" =>
              /\ x.t = REG_EXPAND_SZ
              /\ \E v \in InputValues :
                    v.kind = "text" /\ decode_utf_16le(x.value) = v.text

----------------------------------------------------------------------------
(* Properties of driver resolution and staging (Spec) *)

\* the run is past _upload_virtio: the hive was downloaded and the staging
\* step has returned or raised
PastUploadVirtio ==
    KvmWindows /\ file # NoFile /\ pc # "upload_virtio"

NothingStaged == mkdirs = 0 /\ uploaded = {} /\ hstate = "closed"

\* C12: for a guest version outside the version map (10.0) and any
\* architecture value, driver resolution fails with UnsupportedGuestVersion,
\* no guest directory having been created and no file uploaded.
C12_UnsupportedGuestVersion ==
    (PastUploadVirtio /\ Package(guest.major, guest.minor) = "?") =>
        /\ pc = "failed"
        /\ err = "UnsupportedGuestVersion"
        /\ NothingStaged

\* C13: for a supported version and an architecture outside the
\* architecture map, driver resolution fails with UnsupportedArchitecture,
\* before any guest directory is created or file uploaded and before the hive
\* is opened.
C13_UnsupportedArchitecture ==
    (/\ PastUploadVirtio
     /\ Package(guest.major, guest.minor) # "?"
     /\ Directory(guest.arch) = "?") =>
        /\ pc = "failed"
        /\ err = "UnsupportedArchitecture"
        /\ NothingStaged

----------------------------------------------------------------------------
(* Properties of the dispatch (Spec) *)

\* convert() has got to its body: inspection has given the guest's OS family
Dispatched == registered /\ pc \notin {"mounted_devices", "dispatch"}

Ended == pc \in {"done", "failed"}

\* no routine has downloaded, staged, or opened, edited or committed a hive
NoRoutineEffect ==
    /\ file = NoFile /\ tmpdir = "none"
    /\ hstate = "closed" /\ hive = NoFile
    /\ commits = 0 /\ created = 0 /\ writes = 0 /\ ip = 0
    /\ mkdirs = 0 /\ uploaded = {}

Unimplemented == dest = "xen" /\ guest.ostype \in {"windows", "linux"}

KvmLinux == dest = "kvm" /\ guest.ostype = "linux"

C14_State ==
    (Unimplemented \/ KvmLinux) =>
        /\ NoRoutineEffect
        /\ (Dispatched /\ Unimplemented /\ Ended) =>
              pc = "failed" /\ err = "NotImplemented"
        /\ (Dispatched /\ KvmLinux /\ Ended) =>
              pc = "done" /\ err = NoError
        /\ (Dispatched /\ ~Ended) =>
              pc = "convert_" \o dest \o "_" \o guest.ostype

\* C14: convert() for (xen, windows) and (xen, linux) fails with
\* NotImplemented and for (kvm, linux) succeeds; in all three cases the run
\* downloads no hive, opens and commits no hive, creates no guest directory,
\* uploads no file, and leaves the guest's hive and directory as they were.
C14_NoOpRoutines ==
    /\ []C14_State
    /\ [][(Unimplemented \/ KvmLinux) =>
             guest_hive' = guest_hive /\ guest_dir' = guest_dir]_vars

\* convert('xen') on a Windows guest, ended after its devices were mounted
C14_Witness ==
    /\ dest = "xen" /\ guest.ostype = "windows"
    /\ pc = "failed" /\ err = "NotImplemented"
    /\ gfs = "active" /\ registered /\ mount_calls > 0
    /\ NoRoutineEffect

NoSuchPair ==
    ~(dest \in {"kvm", "xen"} /\ guest.ostype \in {"windows", "linux"})

\* C15: for a (hypervisor, OS family) pair outside {kvm, xen} x {windows,
\* linux} convert() fails with NoConverter, the error carrying both the
\* hypervisor and the OS family, and no conversion routine runs: no hive
\* download, no staging, no hive edit.
C15_NoConverter ==
    NoSuchPair =>
        /\ NoRoutineEffect
        /\ pc \in {"idle", "registered_info", "mounted_devices", "dispatch",
                   "failed"}
        /\ (registered /\ Ended) =>
              /\ pc = "failed"
              /\ err = "NoConverter: No converter to \"" \o dest
                          \o "\" for platform \"" \o guest.ostype \o "\""

\* convert('vmware') on a FreeBSD guest
C15_Witness ==
    /\ dest = "vmware" /\ guest.ostype = "freebsd"
    /\ pc = "failed"
    /\ err = "NoConverter: No converter to \"vmware\" for platform \"freebsd\""
    /\ registered /\ NoRoutineEffect

----------------------------------------------------------------------------
(* C16: the staging of the driver files (Spec) *)

\* the positions of the calls of one name in the log of the running operation
CallsOf(log, name) == {i \in 1..Len(log) : log[i].call = name}

RegularFiles == {"VIOSTOR.SYS", "viostor.inf"}

SourceDirectory ==
    <<"virtio", Package(guest.major, guest.minor), Directory(guest.arch)>>

\* _upload_virtio has returned
StagingDone == KvmWindows /\ (pc = "stub_viostor" \/ hstate # "closed")

C16_State ==
    KvmWindows =>
        /\ \A i \in CallsOf(gfs_calls, "upload") :
              /\ \E f \in RegularFiles :
                    /\ gfs_calls[i].source = Append(SourceDirectory, f)
                    /\ gfs_calls[i].dest = <<"/v2v-virtio", f>>
              /\ \A j \in CallsOf(gfs_calls, "upload") :
                    gfs_calls[j].source = gfs_calls[i].source => j = i
              /\ \A j \in CallsOf(gfs_calls, "mkdir_p") :
                    j < i /\ gfs_calls[j].ok
              /\ guest_dir
        /\ Cardinality(CallsOf(gfs_calls, "mkdir_p")) <= 1
        /\ StagingDone =>
              /\ \A f \in RegularFiles :
                    \E i \in CallsOf(gfs_calls, "upload") :
                       /\ gfs_calls[i].dest = <<"/v2v-virtio", f>>
                       /\ gfs_calls[i].ok
              /\ Cardinality(CallsOf(gfs_calls, "upload")) = 2
              /\ Cardinality(uploaded) = 2
              /\ guest_dir

\* the directory is made exactly when is_dir reports it absent
C16_Step ==
    (pc = "upload_virtio" /\ CallsOf(gfs_calls', "upload") # {}) =>
        /\ guest_dir => CallsOf(gfs_calls', "mkdir_p") = {}
        /\ ~guest_dir => Cardinality(CallsOf(gfs_calls', "mkdir_p")) = 1
        /\ guest_dir'

\* C16: staging for a supported version and architecture uploads each
\* regular file directly inside the resolved source directory exactly once,
\* to /v2v-virtio/<file name>, and nothing for a subdirectory or what it
\* holds; the destination directory exists before the first upload, made by
\* mkdir_p when is_dir reports it absent and not made when it exists.
C16_Staging == []C16_State /\ [][C16_Step]_vars

\* a staging that had to make the directory and has uploaded both files
C16_Witness ==
    /\ KvmWindows /\ pc = "stub_viostor"
    /\ mkdirs = 1 /\ guest_dir
    /\ Cardinality(CallsOf(gfs_calls, "mkdir_p")) = 1
    /\ Cardinality(CallsOf(gfs_calls, "upload")) = 2
    /\ guest.major = 6 /\ guest.minor = 0 /\ guest.arch = "i386"

----------------------------------------------------------------------------
(* C17: the mounts in front of a conversion (SpecImage) *)

\* the calls that a step appends to the log
NewCalls == {i \in 1..Len(gfs_calls') : i > Len(gfs_calls)}

C17_Step ==
    pc = "mounted_devices" =>
        /\ \A i \in NewCalls :
              /\ gfs_calls'[i].call = "mount"
              /\ gfs_calls'[i].source[1] \notin mounts
              /\ gfs_calls'[i].ok <=> gfs_calls'[i].source[1] \in mounts'
        /\ \A d \in {"/dev/sda1", "/dev/sda2"} \ mounts :
              Cardinality({i \in NewCalls : gfs_calls'[i].source = <<d>>}) = 1
        /\ mounts \subseteq mounts'
        /\ pc' = "dispatch" /\ err' = NoError

\* C17: in the filesystem setup of convert() a device that the session
\* reports as mounted is not mounted again, every other device of the mount
\* points is attempted once whether or not an earlier mount failed, and
\* whatever the mounts did the call goes on, without an error, to the
\* dispatch of the routine.
C17_MountFailuresIgnored == [][C17_Step]_vars

\* a second convert() that found one device mounted, failed to mount the
\* other, and ran its routine
C17_Witness ==
    /\ ops = 2 /\ dest = "kvm" /\ guest.ostype = "linux" /\ pc = "done"
    /\ Cardinality(mounts) = 1
    /\ Len(gfs_calls) = 1 /\ gfs_calls[1].call = "mount" /\ ~gfs_calls[1].ok
    /\ mount_calls = 3

----------------------------------------------------------------------------
(* C18: the guest session over the calls on one Image (SpecImage) *)

\* where the wrapper of a called operation has not run yet
AtWrapper ==
    pc \in {"idle", "info", "to_qcow2", "convert_kvm_windows",
            "convert_xen_windows", "convert_kvm_linux", "convert_xen_linux"}

\* the step is a wrapper whose launch raised, so that the body did not run
LaunchRaisedNow == launches' = launches + 1 /\ gfs' = "unlaunched"

\* C18: over any sequence of calls of the public operations of one Image the
\* guest session is added and launched at most once, by the first call, and
\* the session is active whenever the body of an operation runs, nested
\* calls included.
C18_SessionActiveBeforeBody ==
    /\ [](launches <= 1)
    /\ []((ops >= 1 /\ ~AtWrapper) => launches = 1)
    /\ []((~AtWrapper /\ pc \notin {"ready", "done", "failed"}) =>
             gfs = "active")
    /\ [][(AtWrapper /\ ~LaunchRaisedNow) => gfs' = "active"]_vars

----------------------------------------------------------------------------
(* C19: the at-root flag (SpecNav) *)

\* C19: after the open and calls of navigate_to and add_subkey the last of
\* which succeeded, the at-root flag is true exactly when the cursor is on
\* the hive root: true after the open, false after a successful navigate_to,
\* which has descended at least one key, and after a successful add_subkey;
\* and a cursor on the root always has the flag set.
C19_AtRootIffRoot ==
    hstate = "open" =>
        /\ current_node = root => at_root
        /\ last.err = NoError =>
              /\ at_root <=> current_node = root
              /\ last.op = "open" => at_root /\ current_node = root
              /\ last.op \in {"navigate_to", "add_subkey"} =>
                    /\ ~at_root
                    /\ current_node \in 2..Len(hive.nodes)
                    /\ hive.nodes[current_node].parent # 0

\* an add_subkey that created a key under the root
C19_Witness ==
    /\ hstate = "open"
    /\ last.op = "add_subkey" /\ last.err = NoError /\ last.made
    /\ hive.nodes[current_node].parent = root
    /\ ~at_root

----------------------------------------------------------------------------
(* C20: the stub injection run again on what it committed (Spec) *)

NoDuplicates(h) ==
    /\ \A i, j \in 1..Len(h.nodes) : h.nodes[i] = h.nodes[j] => i = j
    /\ \A n \in 1..Len(h.nodes) :
          \A i, j \in 1..Len(h.vals[n]) :
             h.vals[n][i].key = h.vals[n][j].key => i = j

SameContent(g, h) ==
    /\ g.nodes = h.nodes
    /\ \A n \in 1..Len(h.nodes) : ValuesOf(g, n) = ValuesOf(h, n)

\* C20: the stub injection run on the hive that a stub injection committed,
\* and so on a hive that holds the device keys and the service key already,
\* succeeds and commits a hive with the same keys and the same values as the
\* first run; no node of either hive has two subkeys of one name or two
\* values of one name, and each value written holds what the last write
\* stored ('Start' is 0 whatever it was, 'Tag' is 0x21).
C20_StubIdempotent ==
    (pc = "done" /\ KvmWindows) =>
        LET once  == stub_viostor_on(guest_hive)
            twice == stub_viostor_on(file)
            cs    == TheChild(twice.h, 1, CurrentSet(guest_hive))
            drv   == TheChild(twice.h, TheChild(twice.h, cs, "Services"),
                              "viostor")
        IN  /\ once.err = NoError /\ once.h = file
            /\ twice.err = NoError
            /\ SameContent(twice.h, file)
            /\ NoDuplicates(file) /\ NoDuplicates(twice.h)
            /\ Holds(twice.h, drv, "Start", 4, <<0, 0, 0, 0>>)
            /\ Holds(twice.h, drv, "Tag", 4, <<33, 0, 0, 0>>)
            /\ Holds(twice.h, drv, "Group", 1, SCSI_miniport_bytes)

\* a run on a hive that held one device key and a service key with
\* Start = 3, and the run repeated on its result
C20_Witness ==
    /\ pc = "done" /\ KvmWindows
    /\ guest_hive = StubbedHive /\ file # guest_hive
    /\ created = 2
    /\ SameContent(stub_viostor_on(file).h, file)
    /\ Len(file.nodes) = Len(guest_hive.nodes) + 2

====
